---- MODULE Spec2Model ----
(***************************************************************************)
(* BatchIMG (src/main.py): the pipeline executor process(), the isolation  *)
(* wrapper check(), the batch runner start_processing(), the job           *)
(* dispatcher start_processing_threads(), the validators                   *)
(* func_transform_resize(), func_transform_crop() and                      *)
(* func_transform_posterize(), save_logs() and the two ways out of the      *)
(* main loop.                                                              *)
(*                                                                         *)
(* An image is the record [name, ext, pixels]: pixels is the sequence of   *)
(* transforms that have produced its pixel data, so two images are equal   *)
(* exactly when the same transforms were applied to the same source in the *)
(* same order.  The log listbox is kept as the multiset of its lines.          *)
(***************************************************************************)
EXTENDS Integers, Sequences, FiniteSets, Bags, TLC

VARIABLES
    enabled,        \* the checked IntVar checkbuttons (transform_*, advanced_*)
    srcdir,         \* os.listdir(in_directory): the source directory entries
    THREAD_COUNT,   \* global, line 19
    IMG_COUNT,      \* global, line 20
    ERR_COUNT,      \* global, line 21
    log,            \* log_listbox
    pc,             \* per worker: position in start_processing
    idx,            \* per worker: entries of the for loop already handled
    launcher,       \* the UI thread inside start_processing_threads, or "idle"
    last,           \* the latest process() call: its input and its outcome
    outdir,         \* the files of the output directory when the program starts
    saved,          \* the files written into the output directory since
    asked,          \* per worker: calls of messagebox.askokcancel, line 991
    read,           \* per worker: the option store at each moment the batch read it
    mainloop,       \* root.mainloop(): "running", "asking" or "ended"
    transform_resize_entry,   \* the text of the resize entry
    resized,        \* the latest func_transform_resize call on its own
    transform_crop_entry,     \* the text of the crop entry
    cropped,        \* the latest func_transform_crop call on its own
    transform_posterize_entry,    \* the text of the posterize entry
    posterized,     \* the latest func_transform_posterize call on its own
    logs_txt        \* the file logs.txt that save_logs writes

vars == <<enabled, srcdir, THREAD_COUNT, IMG_COUNT, ERR_COUNT, log, pc, idx,
          launcher, last, outdir, saved, asked, read, mainloop,
          transform_resize_entry, resized, transform_crop_entry, cropped,
          transform_posterize_entry, posterized, logs_txt>>

\* The entries of the parameterized transforms, the calls made on them,
\* and the saved log file.
aside == <<transform_resize_entry, resized, transform_crop_entry, cropped,
           transform_posterize_entry, posterized, logs_txt>>

\* What the batch runner never writes.
ui == <<mainloop, aside>>

----------------------------------------------------------------------------
(* Bounds *)

NumWorkers == 2
NumFiles == 2
MaxEnabled == 2

Workers == 1..NumWorkers

----------------------------------------------------------------------------
(* Option store *)

\* OPERATIONS with crop handed to check() before transpose.
OPERATIONS_swapped ==
    << "transform_resize", "transform_crop", "transform_transpose",
       "transform_scale", "transform_expand",
       "transform_flip", "transform_mirror", "transform_equalize",
       "transform_grayscale", "transform_invert", "transform_posterize",
       "transform_solarize",
       "transform_blur", "transform_contour", "transform_detail",
       "transform_edge_enhance", "transform_edge_enhance_more",
       "transform_emboss", "transform_find_edges", "transform_sharpen",
       "transform_smooth", "transform_smooth_more",
       "transform_color", "transform_contrast", "transform_brightness",
       "transform_sharpness",
       "advanced_convert_filetype", "advanced_convert_modes" >>

\* The operations process() hands to check(), in the order of lines 885-922.
OPERATIONS ==
    << "transform_resize", "transform_transpose", "transform_crop",
       "transform_scale", "transform_expand",
       "transform_flip", "transform_mirror", "transform_equalize",
       "transform_grayscale", "transform_invert", "transform_posterize",
       "transform_solarize",
       "transform_blur", "transform_contour", "transform_detail",
       "transform_edge_enhance", "transform_edge_enhance_more",
       "transform_emboss", "transform_find_edges", "transform_sharpen",
       "transform_smooth", "transform_smooth_more",
       "transform_color", "transform_contrast", "transform_brightness",
       "transform_sharpness",
       "advanced_convert_filetype", "advanced_convert_modes" >>

\* The statistics metrics, in the order of lines 926-934.
METRICS ==
    << "advanced_extrema", "advanced_count", "advanced_sum", "advanced_sum2",
       "advanced_mean", "advanced_median", "advanced_rms", "advanced_var",
       "advanced_stddev" >>

Range(s) == { s[i] : i \in 1..Len(s) }

OpSet == Range(OPERATIONS)
MetricSet == Range(METRICS)

\* Every checkbutton process() reads.
Toggles == OpSet \cup {"advanced_stats"} \cup MetricSet

\* Transforms that validate a parameter and can refuse it with a WARN.
ParamOps ==
    { "transform_resize", "transform_crop", "transform_scale",
      "transform_expand", "transform_posterize", "transform_solarize",
      "transform_color", "transform_contrast", "transform_brightness",
      "transform_sharpness" }

\* What one invocation of a transform can end in.
Outcomes(op) ==
    IF op = "transform_resize" THEN {"ok", "reject", "skip", "raise"}
    ELSE IF op \in ParamOps THEN {"ok", "reject", "raise"}
    ELSE {"ok", "raise"}

\* advanced_convert_filetype_option: the combobox starts on SAVE_FORMATS[0].
advanced_convert_filetype_option == "BLP"

\* f".{new_type.lower()}" for the formats of SAVE_FORMATS used here.
LowerExt(new_type) ==
    CASE new_type = "BLP" -> ".blp"
      [] new_type = "PNG" -> ".png"
      [] new_type = "JPEG" -> ".jpeg"
      [] OTHER -> ".bmp"

----------------------------------------------------------------------------
(* Pipeline executor.  A pipeline state st is the record                    *)
(*   img     the working image                                              *)
(*   ext     img_extension                                                  *)
(*   lines   what insert_log received during this call, in order            *)
(*   errs    how often ERR_COUNT was incremented during this call           *)
(*   invoked the transform functions that were called, in order (and the   *)
(*           statistics block, when it was entered)                        *)

Line(tag, text) == [tag |-> tag, text |-> text, args |-> << >>]

\* f"[INFO] Finished processing {IMG_COUNT} images with {ERR_COUNT} error(s)."
SummaryLine(images, errors) ==
    [tag |-> "INFO", text |-> "Finished", args |-> <<images, errors>>]

\* A resize that logs nothing when its suffix makes it skip the image.
func_quiet(op, how, st) ==
    LET called == [st EXCEPT !.invoked = Append(@, op)] IN
    IF how = "reject" THEN
        [called EXCEPT !.lines = Append(@, Line("WARN", op))]
    ELSE IF how = "skip" THEN called
    ELSE IF op = "advanced_convert_filetype" THEN
        [called EXCEPT !.ext = LowerExt(advanced_convert_filetype_option),
                       !.lines = Append(@, Line("ADVANCED", op))]
    ELSE IF op = "advanced_convert_modes" THEN
        [called EXCEPT !.img.pixels = Append(@, op),
                       !.lines = Append(@, Line("ADVANCED", op))]
    ELSE
        [called EXCEPT !.img.pixels = Append(@, op),
                       !.lines = Append(@, Line("TRANSFORM", op))]

\* A transform that applies its operation even when it refuses the
\* parameter.
func_applied(op, how, st) ==
    LET called == [st EXCEPT !.invoked = Append(@, op)] IN
    IF how = "reject" THEN
        [called EXCEPT !.img.pixels = Append(@, op),
                       !.lines = Append(@, Line("WARN", op))]
    ELSE IF how = "skip" THEN
        [called EXCEPT !.lines = Append(@, Line("INFO", op))]
    ELSE IF op = "advanced_convert_filetype" THEN
        [called EXCEPT !.ext = LowerExt(advanced_convert_filetype_option),
                       !.lines = Append(@, Line("ADVANCED", op))]
    ELSE IF op = "advanced_convert_modes" THEN
        [called EXCEPT !.img.pixels = Append(@, op),
                       !.lines = Append(@, Line("ADVANCED", op))]
    ELSE
        [called EXCEPT !.img.pixels = Append(@, op),
                       !.lines = Append(@, Line("TRANSFORM", op))]

\* func_transform_* / func_advanced_*: one transform, ending in `how`.
\* Only reached for how # "raise" (an exception leaves before any insert_log).
func(op, how, st) ==
    LET called == [st EXCEPT !.invoked = Append(@, op)] IN
    IF how = "reject" THEN
        [called EXCEPT !.lines = Append(@, Line("WARN", op))]
    ELSE IF how = "skip" THEN
        [called EXCEPT !.lines = Append(@, Line("INFO", op))]
    ELSE IF op = "advanced_convert_filetype" THEN
        [called EXCEPT !.ext = LowerExt(advanced_convert_filetype_option),
                       !.lines = Append(@, Line("ADVANCED", op))]
    ELSE IF op = "advanced_convert_modes" THEN
        [called EXCEPT !.img.pixels = Append(@, op),
                       !.lines = Append(@, Line("ADVANCED", op))]
    ELSE
        [called EXCEPT !.img.pixels = Append(@, op),
                       !.lines = Append(@, Line("TRANSFORM", op))]

\* check() that logs a raised exception without counting it.
check_uncounted(on, op, how, st) ==
    IF op \in on THEN
        IF how = "raise" THEN
            [st EXCEPT !.invoked = Append(@, op),
                       !.lines = Append(@, Line("ERROR", op))]
        ELSE func(op, how, st)
    ELSE st

\* check() that calls the flip transform whatever its checkbutton says.
check_unguarded(on, op, how, st) ==
    IF op \in on \/ op = "transform_flip" THEN
        IF how = "raise" THEN
            [st EXCEPT !.invoked = Append(@, op),
                       !.lines = Append(@, Line("ERROR", op)),
                       !.errs = @ + 1]
        ELSE func(op, how, st)
    ELSE st

\* check(val, func, img), lines 405-417 (check2 is the same wrapper).
check(on, op, how, st) ==
    IF op \in on THEN
        IF how = "raise" THEN
            [st EXCEPT !.invoked = Append(@, op),
                       !.lines = Append(@, Line("ERROR", op)),
                       !.errs = @ + 1]
        ELSE func(op, how, st)
    ELSE st

\* Lines 885-922: the check() calls from the i-th on.
RECURSIVE RunChecks(_, _, _, _)
RunChecks(i, on, beh, st) ==
    IF i > Len(OPERATIONS) THEN st
    ELSE LET op == OPERATIONS[i]
             how == IF op \in DOMAIN beh THEN beh[op] ELSE "ok"
         IN RunChecks(i + 1, on, beh, check(on, op, how, st))

\* Lines 925-934: the statistics block from the i-th metric on.  A metric
\* that raises is not caught here: the exception leaves process().
RECURSIVE RunStats(_, _, _, _)
RunStats(i, on, beh, acc) ==
    IF i > Len(METRICS) \/ acc.raised THEN acc
    ELSE LET m == METRICS[i] IN
         IF m \notin on THEN RunStats(i + 1, on, beh, acc)
         ELSE IF m \in DOMAIN beh /\ beh[m] = "raise"
              THEN [acc EXCEPT !.raised = TRUE]
              ELSE RunStats(i + 1, on, beh,
                            [acc EXCEPT !.stats = Append(@, <<m, acc.img>>)])

\* process() that takes the statistics from the image as it was opened.
process_early_stats(img, on, beh) ==
    LET st0 == [img |-> img, ext |-> img.ext,
                lines |-> << Line("FILE", "Processing") >>,
                errs |-> 0, invoked |-> << >>]
        st1 == RunChecks(1, on, beh, st0)
        acc0 == [raised |-> FALSE, stats |-> << >>, img |-> img]
        acc == IF "advanced_stats" \in on THEN RunStats(1, on, beh, acc0)
               ELSE acc0
    IN  [raised |-> acc.raised,
         img |-> st1.img,
         img_name |-> img.name,
         img_extension |-> st1.ext,
         img_stats |-> IF acc.raised THEN << >> ELSE acc.stats,
         lines |-> IF acc.raised THEN st1.lines
                   ELSE Append(st1.lines, Line("FILE", "Successfully processed")),
         errs |-> st1.errs,
         invoked |-> IF "advanced_stats" \in on
                     THEN Append(st1.invoked, "advanced_stats") ELSE st1.invoked]

\* process(img), lines 871-938.  `on` is what the checkbuttons read, `beh`
\* how each invoked transform and metric ends.
process(img, on, beh) ==
    LET st0 == [img |-> img, ext |-> img.ext,
                lines |-> << Line("FILE", "Processing") >>,
                errs |-> 0, invoked |-> << >>]
        st1 == RunChecks(1, on, beh, st0)
        acc0 == [raised |-> FALSE, stats |-> << >>, img |-> st1.img]
        acc == IF "advanced_stats" \in on THEN RunStats(1, on, beh, acc0)
               ELSE acc0
    IN  [raised |-> acc.raised,
         img |-> st1.img,
         img_name |-> img.name,
         img_extension |-> st1.ext,
         img_stats |-> IF acc.raised THEN << >> ELSE acc.stats,
         lines |-> IF acc.raised THEN st1.lines
                   ELSE Append(st1.lines, Line("FILE", "Successfully processed")),
         errs |-> st1.errs,
         invoked |-> IF "advanced_stats" \in on
                     THEN Append(st1.invoked, "advanced_stats") ELSE st1.invoked]

\* How the transforms and metrics that `on` selects can end, one choice each.
Behaviours(on) ==
    LET sel == on \cap (OpSet \cup MetricSet) IN
    { beh \in [sel -> {"ok", "reject", "skip", "raise"}] :
        \A o \in sel : beh[o] \in Outcomes(o) }

----------------------------------------------------------------------------
(* Resize.  A text is the sequence of its characters. *)

None == [none |-> TRUE]

Digits == {"0", "1", "2", "3", "4", "5", "6", "7", "8", "9"}

\* Characters for which str.isnumeric() holds: the digits and, among the
\* others used here, the superscript two, which int() does not take.
Numerics == Digits \cup {"²"}

\* str.split(sep): the pieces between the occurrences of sep.
RECURSIVE split(_, _)
split(s, sep) ==
    IF sep \notin Range(s) THEN << s >>
    ELSE LET i == CHOOSE k \in 1..Len(s) :
                     s[k] = sep /\ \A j \in 1..(k - 1) : s[j] # sep
         IN  << SubSeq(s, 1, i - 1) >> \o split(SubSeq(s, i + 1, Len(s)), sep)

\* str.isnumeric()
isnumeric(s) == s # << >> /\ \A i \in 1..Len(s) : s[i] \in Numerics

\* \d+ against a whole text; these are the texts int() takes.
decimal(s) == s # << >> /\ \A i \in 1..Len(s) : s[i] \in Digits

\* int(s) of a text of digits.
RECURSIVE int(_)
int(s) ==
    IF s = << >> THEN 0
    ELSE LET d == CASE s[Len(s)] = "1" -> 1
                    [] s[Len(s)] = "2" -> 2
                    [] s[Len(s)] = "3" -> 3
                    [] s[Len(s)] = "4" -> 4
                    [] s[Len(s)] = "5" -> 5
                    [] s[Len(s)] = "6" -> 6
                    [] s[Len(s)] = "7" -> 7
                    [] s[Len(s)] = "8" -> 8
                    [] s[Len(s)] = "9" -> 9
                    [] OTHER -> 0
         IN  int(SubSeq(s, 1, Len(s) - 1)) * 10 + d

\* \d+% against a whole text.
Percentage(s) ==
    Len(s) >= 2 /\ s[Len(s)] = "%" /\ decimal(SubSeq(s, 1, Len(s) - 1))

\* RESIZE_REGEX.match(s), line 16: ^(?:\d+%?x\d+%?|\d+%|\d+x\d+)$
RESIZE_REGEX(s) ==
    LET part == split(s, "x") IN
    \/ /\ Len(part) = 2
       /\ \A i \in 1..2 : decimal(part[i]) \/ Percentage(part[i])
    \/ Percentage(s)

\* The pairs (p, size), among the percentages and image sizes used here, for
\* which the double float(p) / 100.0 * size lies just below the integer
\* p * size / 100, so that int() yields one less.
FloatShort == { << 29, 100 >>, << 29, 200 >> }

\* format_size_1d(dim, size), lines 384-390.
format_size_1d(dim, size) ==
    IF "%" \in Range(dim) THEN
        LET p == int(split(dim, "%")[1]) IN
        IF << p, size >> \in FloatShort THEN (p * size) \div 100 - 1
        ELSE (p * size) \div 100
    ELSE int(dim)

Warn(img, text) ==
    [how |-> "reject", img |-> img, lines |-> << Line("WARN", text) >>]

\* The suffix check that compares the height with the second number.
Gate_rect(suffix, greater, img) ==
    LET resize_input == split(suffix, "x") IN
    IF ~RESIZE_REGEX(suffix) THEN "warn"
    ELSE IF Len(resize_input) # 2 THEN "warn"
    ELSE IF ~(isnumeric(resize_input[1]) /\ isnumeric(resize_input[2])) THEN "warn"
    ELSE LET new_width == int(resize_input[1])
             new_height == int(resize_input[2])
         IN  IF greater
             THEN IF img.width < new_width \/ img.height < new_height
                  THEN "skip" ELSE "pass"
             ELSE IF img.width > new_width \/ img.height > new_height
                  THEN "skip" ELSE "pass"

\* The suffix check that also skips an image as large as the threshold.
Gate_strict(suffix, greater, img) ==
    LET resize_input == split(suffix, "x") IN
    IF ~RESIZE_REGEX(suffix) THEN "warn"
    ELSE IF Len(resize_input) # 2 THEN "warn"
    ELSE IF ~(isnumeric(resize_input[1]) /\ isnumeric(resize_input[2])) THEN "warn"
    ELSE LET new_width == int(resize_input[1])
             new_height == int(resize_input[1])
         IN  IF greater
             THEN IF img.width <= new_width \/ img.height <= new_height
                  THEN "skip" ELSE "pass"
             ELSE IF img.width >= new_width \/ img.height >= new_height
                  THEN "skip" ELSE "pass"

\* The suffix check that compares as for '>' whichever sign was given.
Gate_one_way(suffix, greater, img) ==
    LET resize_input == split(suffix, "x") IN
    IF ~RESIZE_REGEX(suffix) THEN "warn"
    ELSE IF Len(resize_input) # 2 THEN "warn"
    ELSE IF ~(isnumeric(resize_input[1]) /\ isnumeric(resize_input[2])) THEN "warn"
    ELSE LET new_width == int(resize_input[1])
             new_height == int(resize_input[1])
         IN  IF img.width < new_width \/ img.height < new_height
             THEN "skip" ELSE "pass"

\* Lines 471-515: what the text after '>' (greater) or '<' decides.  Both
\* new_width and new_height are int(resize_input[0]).
Gate(suffix, greater, img) ==
    LET resize_input == split(suffix, "x") IN
    IF ~RESIZE_REGEX(suffix) THEN "warn"
    ELSE IF Len(resize_input) # 2 THEN "warn"
    ELSE IF ~(isnumeric(resize_input[1]) /\ isnumeric(resize_input[2])) THEN "warn"
    ELSE LET new_width == int(resize_input[1])
             new_height == int(resize_input[1])
         IN  IF greater
             THEN IF img.width < new_width \/ img.height < new_height
                  THEN "skip" ELSE "pass"
             ELSE IF img.width > new_width \/ img.height > new_height
                  THEN "skip" ELSE "pass"

\* Lines 455-461: new_size, from a text that RESIZE_REGEX has matched.
Target(new_size, img) ==
    LET size_input == split(new_size, "x") IN
    IF Len(size_input) = 2
    THEN << format_size_1d(size_input[1], img.width),
            format_size_1d(size_input[2], img.height) >>
    ELSE << format_size_1d(size_input[1], img.width),
            format_size_1d(size_input[1], img.height) >>

\* func_transform_resize(img), lines 441-532, on the entry text `input`.
\* The result is how the call ends ("ok", "reject" or "skip", as in
\* Outcomes), the image returned and the lines logged; a resized image is
\* the record of its source and of the new_size handed to ImageOps, whose
\* call is taken to succeed.
func_transform_resize(input, img) ==
    LET greater_than == split(input, ">")
        less_than == split(input, "<")
        new_size == IF Len(greater_than) = 2 THEN greater_than[1] ELSE less_than[1]
        target == Target(new_size, img)
        gate == IF Len(greater_than) = 2 THEN Gate(greater_than[2], TRUE, img)
                ELSE IF Len(less_than) = 2 THEN Gate(less_than[2], FALSE, img)
                ELSE "pass"
    IN
    IF ~RESIZE_REGEX(new_size) THEN Warn(img, "Incorrect resize syntax")
    ELSE IF target[1] = 0 \/ target[2] = 0 THEN
        Warn(img, "Invalid resize parameter(s)")
    ELSE IF gate = "warn" THEN Warn(img, "Invalid resize parameter(s)")
    ELSE IF gate = "skip" THEN
        [how |-> "skip", img |-> img, lines |-> << Line("INFO", "Skipping") >>]
    ELSE
        [how |-> "ok", img |-> [source |-> img, new_size |-> target],
         lines |-> << Line("TRANSFORM", "Resized") >>]

----------------------------------------------------------------------------
(* Inputs *)

\* A file name is the pair os.path.splitext makes of it, the base name being
\* the sequence of its characters.

\* str.lower() on the letters used here.
lower(s) ==
    [i \in 1..Len(s) |-> CASE s[i] = "A" -> "a"
                          [] s[i] = "B" -> "b"
                          [] s[i] = "N" -> "n"
                          [] OTHER -> s[i]]

RECURSIVE lstrip(_)
lstrip(s) == IF s # << >> /\ Head(s) = " " THEN lstrip(Tail(s)) ELSE s

RECURSIVE rstrip(_)
rstrip(s) ==
    IF s # << >> /\ s[Len(s)] = " " THEN rstrip(SubSeq(s, 1, Len(s) - 1)) ELSE s

\* str.strip()
strip(s) == rstrip(lstrip(s))

\* Base names compared as they are, without lower().strip().
base_names_verbatim(files) == { f.name : f \in files }

\* Lines 982-988: in_files / out_files, the base names of a directory after
\* .lower().strip().
base_names(files) == { strip(lower(f.name)) : f \in files }

\* Directory entries: two images sharing a base name, and a file that is
\* no image.
EntryPool ==
    { [name |-> << "a" >>, ext |-> ".png", image |-> TRUE],
      [name |-> << "a" >>, ext |-> ".jpg", image |-> TRUE],
      [name |-> << "n", "o", "t", "e", "s" >>, ext |-> ".txt", image |-> FALSE] }

\* Files the output directory can hold at the start: two whose base name
\* differs from "a" in case or in surrounding blanks only, one named like
\* the file that is no image, and one unrelated.
DestPool ==
    { [name |-> << "A" >>, ext |-> ".png"],
      [name |-> << " ", "a", " " >>, ext |-> ".bmp"],
      [name |-> << "N", "o", "t", "e", "s" >>, ext |-> ".txt"],
      [name |-> << "b" >>, ext |-> ".png"] }

\* Texts of the resize entry.  Fields: absolute numbers and percentages.
Abs == { << "0" >>, << "5", "0" >>, << "1", "2", "0" >>, << "2", "0", "0" >> }

Pct == { n \o << "%" >> : n \in { << "0" >>, << "2", "9" >>, << "5", "0" >> } }

Pairs == { f \o << "x" >> \o g : f, g \in Abs \cup Pct }

\* The sizes of one field or two.
Sizes == Abs \cup Pct \cup Pairs

\* Two absolute numbers: what may follow '>' or '<'.
Thresholds ==
    { a \o << "x" >> \o b : a, b \in { << "1", "2", "0" >>, << "2", "0", "0" >> } }

\* Other texts put after '>' or '<'.
BadSuffixes ==
    { << >>, << "a" >>, << "2", "0", "0" >>, << "5", "0", "%" >>,
      << "5", "0", "%", "x", "2", "0", "0" >>,
      << "2", "0", "0", "x", "5", "0", "%" >>,
      << "2", "0", "0", "x", "2", "0", "0", "<", "2", "0", "0", "x", "2", "0", "0" >> }

\* The sizes that are tried with a suffix.
GatedSizes ==
    { << "5", "0", "%" >>, << "2", "9", "%" >>, << "0", "%" >>,
      << "2", "0", "0", "x", "1", "2", "0" >>, << "5", "0" >>, << "a" >> }

\* transform_resize_entry.insert(END, "100%"), line 1242.
DefaultResize == << "1", "0", "0", "%" >>

\* transform_crop_entry.insert(END, "0%,0%,0%,0%"), line 1302.
DefaultCrop == << "0", "%", ",", "0", "%", ",", "0", "%", ",", "0", "%" >>

\* transform_posterize_entry.insert(END, "8"), line 1380.
DefaultPosterize == << "8" >>

ResizeInputs ==
    Sizes
      \cup { s \o << o >> \o t : s \in GatedSizes, o \in {">", "<"},
                                 t \in Thresholds \cup BadSuffixes }
      \cup { << >>, << "a" >>, DefaultResize }

\* Widths and heights of the images handed to func_transform_resize.
Dims == {100, 150, 200, 250}

----------------------------------------------------------------------------
(* Crop and posterize *)

\* CROP_REGEX.match(s), line 17: ^(?:\d+%?)(?:,\s*\d+%?){3}$
CROP_REGEX(s) ==
    LET part == split(s, ",") IN
    /\ Len(part) = 4
    /\ decimal(part[1]) \/ Percentage(part[1])
    /\ \A i \in 2..4 : decimal(lstrip(part[i])) \/ Percentage(lstrip(part[i]))

\* Lines 556-563: left, upper, right, lower of a text CROP_REGEX has
\* matched.
Box(coordinates, img) ==
    LET part == split(coordinates, ",")
        field == [i \in 1..4 |-> strip(part[i])]
    IN  << format_size_1d(field[1], img.width),
           format_size_1d(field[2], img.height),
           IF "%" \in Range(field[3])
           THEN img.width - format_size_1d(field[3], img.width)
           ELSE int(field[3]),
           IF "%" \in Range(field[4])
           THEN img.height - format_size_1d(field[4], img.height)
           ELSE int(field[4]) >>

\* func_transform_crop(img), lines 546-575, on the entry text
\* `coordinates`.  img.crop(box) returns the region as an image of width
\* right - left and height lower - upper.
func_transform_crop(coordinates, img) ==
    LET box == Box(coordinates, img) IN
    IF ~CROP_REGEX(coordinates) THEN Warn(img, "Incorrect cropping syntax")
    ELSE IF box[1] < box[3] /\ box[2] < box[4] /\ box[3] # 0 /\ box[4] # 0 THEN
        [how |-> "ok",
         img |-> [source |-> img, box |-> box,
                  width |-> box[3] - box[1], height |-> box[4] - box[2]],
         lines |-> << [tag |-> "TRANSFORM", text |-> "Cropped", args |-> box] >>]
    ELSE Warn(img, "Invalid cropping dimensions")

\* func_transform_posterize(img), lines 659-671, on the entry text `bits`.
\* On a text that isnumeric() accepts and int() does not, int(bits) raises
\* ValueError inside the condition of line 664: the call ends in an
\* exception, with nothing logged and no image returned.
func_transform_posterize(bits, img) ==
    IF isnumeric(bits) /\ ~decimal(bits) THEN
        [how |-> "raise", img |-> None, lines |-> << >>]
    ELSE IF isnumeric(bits) /\ int(bits) > 0 /\ int(bits) < 9 THEN
        [how |-> "ok", img |-> [source |-> img, bits |-> int(bits)],
         lines |-> << [tag |-> "TRANSFORM", text |-> "Posterized",
                       args |-> << int(bits) >>] >>]
    ELSE Warn(img, "Invalid posterize argument")

\* Characters typed into the posterize entry.
PosterizeChars == {"0", "1", "8", "9", "²", "a", "-", "."}

\* Texts of the posterize entry: up to two of these characters.
PosterizeInputs ==
    { << >> } \cup { << c >> : c \in PosterizeChars }
              \cup { << c, d >> : c, d \in PosterizeChars }

\* Fields of the crop entry.
CropFields ==
    { << "0" >>, << "5", "0" >>, << "1", "2", "0" >>,
      << "1", "0", "%" >>, << "2", "9", "%" >>, << "5", "0", "%" >>,
      << "1", "0", "0", "%" >> }

\* Texts of the crop entry: four fields, the default, a blank after a
\* comma, and texts the regex refuses.
CropSpecs ==
    { a \o << "," >> \o b \o << "," >> \o c \o << "," >> \o d :
        a, b, c, d \in CropFields }

CropInputs ==
    CropSpecs
      \cup { DefaultCrop, << >>, << "a" >>,
             << "1", "0", "%", ",", " ", "1", "0", "%", ",", " ", "1", "0", "%",
                ",", " ", "1", "0", "%" >>,
             << " ", "0", ",", "0", ",", "5", "0", ",", "5", "0" >>,
             << "0", ",", "0", ",", "5", "0" >>,
             << "0", ",", "0", ",", "5", "0", ",", "5", "0", ",", "5", "0" >>,
             << "a", ",", "b", ",", "c", ",", "d" >>,
             << "0", ",", "0", ",", "5", "0", " ", ",", "5", "0" >> }

\* Output directories of at most n files.
RECURSIVE Destinations(_)
Destinations(n) ==
    IF n = 0 THEN { {} }
    ELSE LET fewer == Destinations(n - 1) IN
         fewer \cup { d \cup {f} : d \in fewer, f \in DestPool }

\* Listings of at most n distinct entries.
RECURSIVE Listings(_)
Listings(n) ==
    IF n = 0 THEN { << >> }
    ELSE LET shorter == Listings(n - 1) IN
         shorter \cup { Append(l, e) : l \in shorter, e \in EntryPool }

Distinct(l) == \A i, j \in 1..Len(l) : i # j => l[i] # l[j]

\* Sets of at most n checked checkbuttons out of `pool`.
RECURSIVE Configs(_, _)
Configs(pool, n) ==
    IF n = 0 THEN { {} }
    ELSE LET fewer == Configs(pool, n - 1) IN
         fewer \cup { c \cup {t} : c \in fewer, t \in pool }

\* Image.open(img_path) on a decodable entry.
Open(e) == [name |-> e.name, ext |-> e.ext, pixels |-> << >>]

\* insert_log(msg), lines 376-381.
insert_log(l, msg) == l (+) SetToBag({ msg })

\* Several insert_log calls in a row.
RECURSIVE insert_logs(_, _)
insert_logs(l, lines) ==
    IF lines = << >> THEN l
    ELSE insert_logs(insert_log(l, Head(lines)), Tail(lines))

\* How many lines tagged `tag` the listbox holds.
Logged(l, tag) ==
    LET hit == { x \in BagToSet(l) : x.tag = tag } IN
    BagCardinality([x \in hit |-> l[x]])

----------------------------------------------------------------------------
(* Job dispatcher and batch runner *)

\* THREAD_COUNT = 0 if THREAD_COUNT < 0 else (THREAD_COUNT - 1)
Release(n) == IF n < 0 THEN 0 ELSE n - 1

Ended(w) == pc[w] \in {"aborted", "finished", "crashed"}

\* start_processing_threads, lines 1057-1059: worker_thread.start().
Launch(w) ==
    /\ mainloop = "running"
    /\ launcher = 0
    /\ pc[w] = "idle"
    /\ \A v \in Workers : v < w => pc[v] # "idle"
    /\ pc' = [pc EXCEPT ![w] = "start"]
    /\ launcher' = w
    /\ UNCHANGED <<enabled, srcdir, THREAD_COUNT, IMG_COUNT, ERR_COUNT, log,
                   idx, last, outdir, saved, asked, read, ui>>

\* start_processing_threads, lines 1060-1061: THREAD_COUNT += 1.
Increment ==
    /\ launcher # 0
    /\ THREAD_COUNT' = THREAD_COUNT + 1
    /\ launcher' = 0
    /\ UNCHANGED <<enabled, srcdir, IMG_COUNT, ERR_COUNT, log, pc, idx, last,
                   outdir, saved, asked, read, ui>>

\* Lines 958-962, 975-979 and 992-995 with the return left out: the batch
\* goes on into its loop.
Abort_resume(w, lines) ==
    /\ log' = insert_logs(log, lines)
    /\ THREAD_COUNT' = Release(THREAD_COUNT)
    /\ pc' = [pc EXCEPT ![w] = "loop"]

\* Lines 958-962, 975-979 and 992-995: log, give up the place in
\* THREAD_COUNT, return.
Abort(w, lines) ==
    /\ log' = insert_logs(log, lines)
    /\ THREAD_COUNT' = Release(THREAD_COUNT)
    /\ pc' = [pc EXCEPT ![w] = "aborted"]

\* Line 990: not set(in_files).isdisjoint(out_files) and not
\* general_overwrite.get(), on the output directory as it is now.
MustAsk ==
    /\ base_names(Range(srcdir)) \cap base_names(outdir \cup saved) # {}
    /\ "general_overwrite" \notin enabled

\* start_processing, lines 946-998, up to the overwrite prompt or the loop.
\* `env` is what the file system does: "encode" (os.fsencode raises),
\* "mkdir" (os.makedirs raises), "list" (os.listdir raises) or "ok".
Begin(w) ==
    /\ pc[w] = "start"
    /\ \E env \in {"encode", "mkdir", "list", "ok"} :
         /\ IMG_COUNT' = 0
         /\ ERR_COUNT' = 0
         /\ idx' = [idx EXCEPT ![w] = 0]
         /\ read' = [read EXCEPT ![w] = << enabled >>]
         /\ CASE env = "encode" ->
                   /\ Abort(w, << Line("ERROR", "fsencode") >>)
                   /\ UNCHANGED asked
              [] env = "mkdir" ->
                   /\ Abort(w, << Line("INFO", "Started"), Line("ERROR", "makedirs") >>)
                   /\ UNCHANGED asked
              [] env = "list" ->
                   /\ log' = insert_log(log, Line("INFO", "Started"))
                   /\ pc' = [pc EXCEPT ![w] = "crashed"]
                   /\ UNCHANGED <<THREAD_COUNT, asked>>
              [] env = "ok" /\ MustAsk ->
                   /\ log' = insert_log(log, Line("INFO", "Started"))
                   /\ pc' = [pc EXCEPT ![w] = "confirm"]
                   /\ asked' = [asked EXCEPT ![w] = Append(@, "open")]
                   /\ UNCHANGED THREAD_COUNT
              [] OTHER ->
                   /\ log' = insert_log(log, Line("INFO", "Started"))
                   /\ pc' = [pc EXCEPT ![w] = "loop"]
                   /\ UNCHANGED <<THREAD_COUNT, asked>>
    /\ UNCHANGED <<enabled, srcdir, launcher, last, outdir, saved, ui>>

\* Lines 991-998 with a declined prompt that is logged but does not return.
Confirm_resume(w) ==
    /\ pc[w] = "confirm"
    /\ \E answer \in {"cancel", "ok", "ok_list_raises"} :
         /\ asked' = [asked EXCEPT ![w][Len(asked[w])] =
                         IF answer = "cancel" THEN "cancel" ELSE "ok"]
         /\ CASE answer = "cancel" ->
                   Abort_resume(w, << Line("INFO", "Aborted") >>)
              [] answer = "ok" ->
                   /\ pc' = [pc EXCEPT ![w] = "loop"]
                   /\ UNCHANGED <<log, THREAD_COUNT>>
              [] OTHER ->
                   /\ pc' = [pc EXCEPT ![w] = "crashed"]
                   /\ UNCHANGED <<log, THREAD_COUNT>>
    /\ UNCHANGED <<enabled, srcdir, IMG_COUNT, ERR_COUNT, idx, launcher, last,
                   outdir, saved, read, ui>>

\* Lines 991-998: the answer to messagebox.askokcancel, then os.listdir.
Confirm(w) ==
    /\ pc[w] = "confirm"
    /\ \E answer \in {"cancel", "ok", "ok_list_raises"} :
         /\ asked' = [asked EXCEPT ![w][Len(asked[w])] =
                         IF answer = "cancel" THEN "cancel" ELSE "ok"]
         /\ CASE answer = "cancel" ->
                   Abort(w, << Line("INFO", "Aborted") >>)
              [] answer = "ok" ->
                   /\ pc' = [pc EXCEPT ![w] = "loop"]
                   /\ UNCHANGED <<log, THREAD_COUNT>>
              [] OTHER ->
                   /\ pc' = [pc EXCEPT ![w] = "crashed"]
                   /\ UNCHANGED <<log, THREAD_COUNT>>
    /\ UNCHANGED <<enabled, srcdir, IMG_COUNT, ERR_COUNT, idx, launcher, last,
                   outdir, saved, read, ui>>

\* Lines 1041-1043: the handler of the loop body logs the exception and
\* counts one error; `operr` is what check() had counted before.
Except_uncounted(lines, what, operr) ==
    [lines |-> Append(lines, Line("ERROR", what)), img |-> 0, ferr |-> 0,
     operr |-> operr]

Except(lines, what, operr) ==
    [lines |-> Append(lines, Line("ERROR", what)), img |-> 0, ferr |-> 1,
     operr |-> operr]

\* Line 1040: the end of the try block is reached, IMG_COUNT += 1.
Completed(lines, operr) ==
    [lines |-> lines, img |-> 1, ferr |-> 0, operr |-> operr]

\* An iteration that counts the image as processed before the sidecar is
\* written.
Iteration_counted_first(e, on, beh, io) ==
    LET r == process(Open(e), on, beh)
        spider == IF r.img_extension = ".spi"
                  THEN << Line("FILE", "Spider!") >> ELSE << >>
        stored == << Line("FILE", "Applied extension-specific options"),
                    Line("FILE", "Saved image") >>
    IN
    IF ~e.image THEN Except(<< >>, "open", 0)
    ELSE IF r.raised THEN Except(r.lines, "process", r.errs)
    ELSE IF io = "save_raises" THEN Except(r.lines \o spider, "save", r.errs)
    ELSE IF r.img_stats # << >> /\ io = "write_raises" THEN
        [lines |-> r.lines \o spider \o stored \o << Line("ERROR", "write") >>,
         img |-> 1, ferr |-> 1, operr |-> r.errs]
    ELSE IF r.img_stats # << >> THEN
        Completed(r.lines \o spider \o stored
                    \o << Line("FILE", "Saved statistics") >>, r.errs)
    ELSE Completed(r.lines \o spider \o stored, r.errs)

\* One iteration of the for loop, lines 998-1043, on entry e.  `beh` is how
\* the invoked transforms and metrics end, `io` what img.save and the
\* sidecar write do.  The result is what the iteration adds to the log and
\* to the counters.
Iteration(e, on, beh, io) ==
    LET r == process(Open(e), on, beh)
        spider == IF r.img_extension = ".spi"
                  THEN << Line("FILE", "Spider!") >> ELSE << >>
        stored == << Line("FILE", "Applied extension-specific options"),
                    Line("FILE", "Saved image") >>
    IN
    IF ~e.image THEN Except(<< >>, "open", 0)
    ELSE IF r.raised THEN Except(r.lines, "process", r.errs)
    ELSE IF io = "save_raises" THEN Except(r.lines \o spider, "save", r.errs)
    ELSE IF r.img_stats # << >> /\ io = "write_raises" THEN
        Except(r.lines \o spider \o stored, "write", r.errs)
    ELSE IF r.img_stats # << >> THEN
        Completed(r.lines \o spider \o stored
                    \o << Line("FILE", "Saved statistics") >>, r.errs)
    ELSE Completed(r.lines \o spider \o stored, r.errs)

\* An iteration that saves the image under the extension of its source
\* file, whatever the final extension is.
Files_kept_ext(e, on, beh, io) ==
    LET r == process(Open(e), on, beh)
        image == { [name |-> r.img_name, ext |-> e.ext] }
        sidecar == { [name |-> r.img_name, ext |-> ".txt"] }
    IN
    IF ~e.image \/ r.raised \/ io = "save_raises" THEN {}
    ELSE IF r.img_stats # << >> /\ io # "write_raises" THEN image \cup sidecar
    ELSE image

\* An iteration that writes the sidecar as soon as process() has returned,
\* whether or not the image is then saved.
Files_eager(e, on, beh, io) ==
    LET r == process(Open(e), on, beh)
        image == { [name |-> r.img_name, ext |-> r.img_extension] }
        sidecar == { [name |-> r.img_name, ext |-> ".txt"] }
    IN
    IF ~e.image \/ r.raised THEN {}
    ELSE IF r.img_stats # << >> /\ io = "save_raises" THEN sidecar
    ELSE IF io = "save_raises" THEN {}
    ELSE IF r.img_stats # << >> /\ io # "write_raises" THEN image \cup sidecar
    ELSE image

\* The files the iteration leaves in the output directory: the image at
\* img_name + img_extension and, with a statistics text, the sidecar at
\* img_name + ".txt" (lines 1004, 1026-1038).  A save or a write that raises
\* is taken to leave no file.
Files(e, on, beh, io) ==
    LET r == process(Open(e), on, beh)
        image == { [name |-> r.img_name, ext |-> r.img_extension] }
        sidecar == { [name |-> r.img_name, ext |-> ".txt"] }
    IN
    IF ~e.image \/ r.raised \/ io = "save_raises" THEN {}
    ELSE IF r.img_stats # << >> /\ io # "write_raises" THEN image \cup sidecar
    ELSE image

\* The for loop left at the first entry that fails.
LoopStep_break(w) ==
    /\ pc[w] = "loop"
    /\ idx[w] < Len(srcdir)
    /\ \E beh \in Behaviours(enabled), io \in {"ok", "save_raises", "write_raises"} :
         LET it == Iteration(srcdir[idx[w] + 1], enabled, beh, io) IN
         /\ log' = insert_logs(log, it.lines)
         /\ IMG_COUNT' = IMG_COUNT + it.img
         /\ ERR_COUNT' = ERR_COUNT + it.operr + it.ferr
         /\ saved' = saved \cup Files(srcdir[idx[w] + 1], enabled, beh, io)
         /\ read' = [read EXCEPT ![w] =
                        IF srcdir[idx[w] + 1].image THEN Append(@, enabled) ELSE @]
         /\ idx' = [idx EXCEPT ![w] = IF it.ferr = 1 THEN Len(srcdir) ELSE @ + 1]
    /\ UNCHANGED <<enabled, srcdir, THREAD_COUNT, pc, launcher, last, outdir,
                   asked, ui>>

LoopStep(w) ==
    /\ pc[w] = "loop"
    /\ idx[w] < Len(srcdir)
    /\ \E beh \in Behaviours(enabled), io \in {"ok", "save_raises", "write_raises"} :
         LET it == Iteration(srcdir[idx[w] + 1], enabled, beh, io) IN
         /\ log' = insert_logs(log, it.lines)
         /\ IMG_COUNT' = IMG_COUNT + it.img
         /\ ERR_COUNT' = ERR_COUNT + it.operr + it.ferr
         /\ saved' = saved \cup Files(srcdir[idx[w] + 1], enabled, beh, io)
         /\ read' = [read EXCEPT ![w] =
                        IF srcdir[idx[w] + 1].image THEN Append(@, enabled) ELSE @]
    /\ idx' = [idx EXCEPT ![w] = @ + 1]
    /\ UNCHANGED <<enabled, srcdir, THREAD_COUNT, pc, launcher, last, outdir,
                   asked, ui>>

\* Lines 1045-1046: the summary line, once the loop has run out.
Summary(w) ==
    /\ pc[w] = "loop"
    /\ idx[w] = Len(srcdir)
    /\ log' = insert_log(log, SummaryLine(IMG_COUNT, ERR_COUNT))
    /\ pc' = [pc EXCEPT ![w] = "ending"]
    /\ UNCHANGED <<enabled, srcdir, THREAD_COUNT, IMG_COUNT, ERR_COUNT, idx,
                   launcher, last, outdir, saved, asked, read, ui>>

\* Lines 1048-1049: the worker gives up its place in THREAD_COUNT.
End(w) ==
    /\ pc[w] = "ending"
    /\ THREAD_COUNT' = Release(THREAD_COUNT)
    /\ pc' = [pc EXCEPT ![w] = "finished"]
    /\ UNCHANGED <<enabled, srcdir, IMG_COUNT, ERR_COUNT, log, idx, launcher, last,
                   outdir, saved, asked, read, ui>>

\* A call of process() on its own: the image of one decodable entry under
\* the options read at that moment.  What it appended and counted stays
\* even when the call ends in an exception.
ProcessCall ==
    /\ last = None
    /\ \E e \in { x \in EntryPool : x.image }, beh \in Behaviours(enabled) :
         LET r == process(Open(e), enabled, beh) IN
         /\ last' = [img |-> Open(e), beh |-> beh, r |-> r]
         /\ log' = insert_logs(log, r.lines)
         /\ ERR_COUNT' = ERR_COUNT + r.errs
    /\ UNCHANGED <<enabled, srcdir, THREAD_COUNT, IMG_COUNT, pc, idx, launcher,
                   outdir, saved, asked, read, ui>>

----------------------------------------------------------------------------
(* The operator at the window *)

\* The checkbuttons the operator clicks while batches run.
UIPool == {"transform_invert", "general_overwrite"}

\* A click on the ttk.Checkbutton of IntVar t (lines 1191-1617) flips it.
Toggle(t) ==
    /\ mainloop = "running"
    /\ launcher = 0
    /\ enabled' = IF t \in enabled THEN enabled \ {t} ELSE enabled \cup {t}
    /\ UNCHANGED <<srcdir, THREAD_COUNT, IMG_COUNT, ERR_COUNT, log, pc, idx,
                   launcher, last, outdir, saved, asked, read, ui>>

\* A call of func_transform_resize on its own, on an image of any of the
\* sizes of Dims.
ResizeCall ==
    /\ resized = None
    /\ \E w \in Dims, h \in Dims :
         LET img == [width |-> w, height |-> h]
             r == func_transform_resize(transform_resize_entry, img)
         IN  /\ resized' = [img |-> img, r |-> r]
             /\ log' = insert_logs(log, r.lines)
    /\ UNCHANGED <<enabled, srcdir, THREAD_COUNT, IMG_COUNT, ERR_COUNT, pc, idx,
                   launcher, last, outdir, saved, asked, read, mainloop,
                   transform_resize_entry, transform_crop_entry, cropped,
                   transform_posterize_entry, posterized, logs_txt>>

\* A call of func_transform_crop on its own, on an image of any of the
\* sizes of Dims.
CropCall ==
    /\ cropped = None
    /\ \E w \in Dims, h \in Dims :
         LET img == [width |-> w, height |-> h]
             r == func_transform_crop(transform_crop_entry, img)
         IN  /\ cropped' = [img |-> img, r |-> r]
             /\ log' = insert_logs(log, r.lines)
    /\ UNCHANGED <<enabled, srcdir, THREAD_COUNT, IMG_COUNT, ERR_COUNT, pc, idx,
                   launcher, last, outdir, saved, asked, read, mainloop,
                   transform_resize_entry, resized, transform_crop_entry,
                   transform_posterize_entry, posterized, logs_txt>>

\* A call of func_transform_posterize on its own, on an image of any of
\* the sizes of Dims.
PosterizeCall ==
    /\ posterized = None
    /\ \E w \in Dims, h \in Dims :
         LET img == [width |-> w, height |-> h]
             r == func_transform_posterize(transform_posterize_entry, img)
         IN  /\ posterized' = [img |-> img, r |-> r]
             /\ log' = insert_logs(log, r.lines)
    /\ UNCHANGED <<enabled, srcdir, THREAD_COUNT, IMG_COUNT, ERR_COUNT, pc, idx,
                   launcher, last, outdir, saved, asked, read, mainloop,
                   transform_resize_entry, resized, transform_crop_entry,
                   cropped, transform_posterize_entry, logs_txt>>

\* save_logs, lines 170-180 (Logs > Save Logs, line 1090): with a line in
\* the listbox, logs.txt is opened for writing and the lines are written.
\* `io` is what the file system does: "ok", "open" (open raises: the file
\* is as it was) or "write" (the first file.write raises: the file is left
\* truncated).  The bare except of lines 179-180 passes.
save_logs ==
    /\ mainloop = "running"
    /\ log # EmptyBag
    /\ \E io \in {"ok", "open", "write"} :
         logs_txt' = CASE io = "ok" -> [lines |-> log]
                       [] io = "open" -> logs_txt
                       [] OTHER -> [lines |-> EmptyBag]
    /\ UNCHANGED <<enabled, srcdir, THREAD_COUNT, IMG_COUNT, ERR_COUNT, log, pc,
                   idx, launcher, last, outdir, saved, asked, read, mainloop,
                   transform_resize_entry, resized, transform_crop_entry,
                   cropped, transform_posterize_entry, posterized>>

\* thread.is_alive() for the worker thread of batch w.
Alive(w) == pc[w] # "idle" /\ ~Ended(w)

\* check_on_close, lines 157-167, bound to WM_DELETE_WINDOW at line 1672:
\* with a live thread in ACTIVE_THREADS the dialog is opened, otherwise
\* root.destroy() ends the main loop.
check_on_close ==
    /\ mainloop = "running"
    /\ launcher = 0
    /\ mainloop' = IF \E w \in Workers : Alive(w) THEN "asking" ELSE "ended"
    /\ UNCHANGED <<enabled, srcdir, THREAD_COUNT, IMG_COUNT, ERR_COUNT, log, pc,
                   idx, launcher, last, outdir, saved, asked, read, aside>>

\* Lines 164-165: the answer to "Are you sure you want to quit?".
AnswerClose ==
    /\ mainloop = "asking"
    /\ \E ok \in BOOLEAN : mainloop' = IF ok THEN "ended" ELSE "running"
    /\ UNCHANGED <<enabled, srcdir, THREAD_COUNT, IMG_COUNT, ERR_COUNT, log, pc,
                   idx, launcher, last, outdir, saved, asked, read, aside>>

\* Line 1086: File > Exit is bound to root.quit, which ends the main loop.
ExitMenu ==
    /\ mainloop = "running"
    /\ launcher = 0
    /\ mainloop' = "ended"
    /\ UNCHANGED <<enabled, srcdir, THREAD_COUNT, IMG_COUNT, ERR_COUNT, log, pc,
                   idx, launcher, last, outdir, saved, asked, read, aside>>

----------------------------------------------------------------------------
(* Specifications *)

\* The state after the module has been loaded (lines 18-21, 1224-1617),
\* with the checkbuttons as the operator left them and the source
\* directory as it is on disk.
Start(configs, listings, destinations) ==
    /\ enabled \in configs
    /\ srcdir \in listings
    /\ outdir \in destinations
    /\ saved = {}
    /\ asked = [w \in Workers |-> << >>]
    /\ read = [w \in Workers |-> << >>]
    /\ mainloop = "running"
    /\ transform_resize_entry = DefaultResize
    /\ resized = None
    /\ transform_crop_entry = DefaultCrop
    /\ cropped = None
    /\ transform_posterize_entry = DefaultPosterize
    /\ posterized = None
    /\ logs_txt = None
    /\ THREAD_COUNT = 0
    /\ IMG_COUNT = 0
    /\ ERR_COUNT = 0
    /\ log = EmptyBag
    /\ pc = [w \in Workers |-> "idle"]
    /\ idx = [w \in Workers |-> 0]
    /\ launcher = 0
    /\ last = None

Directories == { l \in Listings(NumFiles) : Distinct(l) }

Advanced == {"advanced_convert_filetype", "advanced_convert_modes", "advanced_stats"}

\* Concurrent batches: any number of workers up to NumWorkers in flight.
Init == Start(Configs({"transform_invert"}, MaxEnabled), Directories, { {} })

Step(w) ==
    \/ Launch(w)
    \/ Begin(w)
    \/ Confirm(w)
    \/ LoopStep(w)
    \/ Summary(w)
    \/ End(w)

Next == Increment \/ \E w \in Workers : Step(w)

Spec == Init /\ [][Next]_vars

\* One batch running alone.
InitAlone ==
    Start(Configs({"transform_invert", "advanced_stats", "advanced_mean"}, MaxEnabled),
          Directories, { {}, { [name |-> << "A" >>, ext |-> ".png"] } })

NextAlone == Increment \/ Step(1)

SpecAlone == InitAlone /\ [][NextAlone]_vars

\* The start of one batch over the source and output directories there can
\* be, with the overwrite checkbutton set or not.
InitStart ==
    Start(Configs({"general_overwrite", "transform_invert"}, MaxEnabled),
          Directories, Destinations(NumFiles))

SpecStart == InitStart /\ [][NextAlone]_vars

\* One batch with the operator at the window, up to the end of the main
\* loop.
InitUI ==
    Start(Configs(UIPool, MaxEnabled), Directories,
          { {}, { [name |-> << "A" >>, ext |-> ".png"] } })

\* What the threads do once the main loop has ended is left out.
Live == mainloop # "ended"

NextUI ==
    \/ Live /\ Increment
    \/ Live /\ Launch(1)
    \/ Live /\ Begin(1)
    \/ Live /\ Confirm(1)
    \/ Live /\ LoopStep(1)
    \/ Live /\ Summary(1)
    \/ Live /\ End(1)
    \/ \E t \in UIPool : Toggle(t)
    \/ check_on_close
    \/ AnswerClose
    \/ ExitMenu

SpecUI == InitUI /\ [][NextUI]_vars

\* One batch with filetype conversion checked or not, and the overwrite
\* checkbutton set or not.
InitConvert ==
    Start(Configs({"advanced_convert_filetype", "general_overwrite"}, MaxEnabled),
          Directories, { {}, { [name |-> << "A" >>, ext |-> ".png"] } })

SpecConvert == InitConvert /\ [][NextAlone]_vars

\* One batch, with the operator saving the log at any moment.
InitLogs ==
    Start(Configs({"transform_invert"}, MaxEnabled), Directories,
          { {}, { [name |-> << "A" >>, ext |-> ".png"] } })

NextLogs == NextAlone \/ save_logs

SpecLogs == InitLogs /\ [][NextLogs]_vars

\* One call of func_transform_resize, on each text the operator can have
\* left in the resize entry.
InitResize ==
    /\ enabled = {"transform_resize"}
    /\ srcdir = << >>
    /\ outdir = {}
    /\ saved = {}
    /\ THREAD_COUNT = 0
    /\ IMG_COUNT = 0
    /\ ERR_COUNT = 0
    /\ log = EmptyBag
    /\ pc = [w \in Workers |-> "idle"]
    /\ idx = [w \in Workers |-> 0]
    /\ asked = [w \in Workers |-> << >>]
    /\ read = [w \in Workers |-> << >>]
    /\ launcher = 0
    /\ last = None
    /\ mainloop = "running"
    /\ transform_resize_entry \in ResizeInputs
    /\ resized = None
    /\ transform_crop_entry = DefaultCrop
    /\ cropped = None
    /\ transform_posterize_entry = DefaultPosterize
    /\ posterized = None
    /\ logs_txt = None

SpecResize == InitResize /\ [][ResizeCall]_vars

\* The batch runner at rest, with no file on either side.
AtRest ==
    /\ srcdir = << >>
    /\ outdir = {}
    /\ saved = {}
    /\ THREAD_COUNT = 0
    /\ IMG_COUNT = 0
    /\ ERR_COUNT = 0
    /\ log = EmptyBag
    /\ pc = [w \in Workers |-> "idle"]
    /\ idx = [w \in Workers |-> 0]
    /\ asked = [w \in Workers |-> << >>]
    /\ read = [w \in Workers |-> << >>]
    /\ launcher = 0
    /\ last = None
    /\ mainloop = "running"
    /\ logs_txt = None

\* One call of func_transform_crop, on each text the operator can have
\* left in the crop entry.
InitCrop ==
    /\ AtRest
    /\ enabled = {"transform_crop"}
    /\ transform_resize_entry = DefaultResize
    /\ resized = None
    /\ transform_crop_entry \in CropInputs
    /\ cropped = None
    /\ transform_posterize_entry = DefaultPosterize
    /\ posterized = None

SpecCrop == InitCrop /\ [][CropCall]_vars

\* One call of func_transform_posterize, on each text the operator can
\* have left in the posterize entry.
InitPosterize ==
    /\ AtRest
    /\ enabled = {"transform_posterize"}
    /\ transform_resize_entry = DefaultResize
    /\ resized = None
    /\ transform_crop_entry = DefaultCrop
    /\ cropped = None
    /\ transform_posterize_entry \in PosterizeInputs
    /\ posterized = None

SpecPosterize == InitPosterize /\ [][PosterizeCall]_vars

\* One call of process(): under up to MaxEnabled checked checkbuttons, or
\* under the three operations of the advanced stage with up to MaxEnabled
\* metrics.
InitPipe ==
    Start(Configs(Toggles, MaxEnabled)
            \cup { Advanced \cup c : c \in Configs(MetricSet, MaxEnabled) },
          { << >> }, { {} })

SpecPipe == InitPipe /\ [][ProcessCall]_vars

----------------------------------------------------------------------------
(* Helpers of the properties *)

\* The elements of sequence s that are in set keep, in the order of s.
RECURSIVE Filter(_, _)
Filter(s, keep) ==
    IF s = << >> THEN << >>
    ELSE IF Head(s) \in keep THEN << Head(s) >> \o Filter(Tail(s), keep)
    ELSE Filter(Tail(s), keep)

\* How many lines of the sequence carry the tag.
CountTag(lines, tag) == Cardinality({ i \in 1..Len(lines) : lines[i].tag = tag })

\* The position of x in s (0 when absent).
Position(s, x) ==
    IF x \in Range(s) THEN CHOOSE i \in 1..Len(s) : s[i] = x ELSE 0

Called == last # None

\* The enabled operations whose transform ended in `how` in the latest call.
EndedIn(how) ==
    { o \in DOMAIN last.beh \cap OpSet : last.beh[o] = how }

----------------------------------------------------------------------------
(* C1 *)

\* The order the claim states.
C1_Order ==
    << "transform_resize", "transform_transpose", "transform_crop",
       "transform_scale", "transform_expand",
       "transform_flip", "transform_mirror", "transform_equalize",
       "transform_grayscale", "transform_invert", "transform_posterize",
       "transform_solarize",
       "transform_blur", "transform_contour", "transform_detail",
       "transform_edge_enhance", "transform_edge_enhance_more",
       "transform_emboss", "transform_find_edges", "transform_sharpen",
       "transform_smooth", "transform_smooth_more",
       "transform_color", "transform_contrast", "transform_brightness",
       "transform_sharpness",
       "advanced_convert_filetype", "advanced_convert_modes",
       "advanced_stats" >>

\* C1: whatever the image and whatever the set of enabled operations, the
\* operations process() has consulted are exactly the enabled ones, in the
\* one fixed order resize, transpose, crop, scale, expand, flip, ...,
\* sharpness, filetype conversion, mode conversion, statistics.
C1_FixedOrder ==
    Called => last.r.invoked = Filter(C1_Order, enabled)

\* Three operations were consulted in one call.
C1_Witness ==
    Called /\ Len(last.r.invoked) >= 3

----------------------------------------------------------------------------
(* C2 *)

\* C2: each enabled operation whose transform raised has logged exactly one
\* ERROR line and added exactly one to the error counter, has left the
\* working image (or the extension) as it was, and every enabled operation
\* was still consulted; the image that comes out carries exactly the
\* operations that succeeded, in pipeline order.
C2_Isolation ==
    Called =>
        LET r == last.r
            raised == EndedIn("raise")
        IN  /\ CountTag(r.lines, "ERROR") = Cardinality(raised)
            /\ \A o \in raised :
                 Cardinality({ i \in 1..Len(r.lines) :
                                 r.lines[i] = Line("ERROR", o) }) = 1
            /\ r.errs = Cardinality(raised)
            /\ ERR_COUNT = Cardinality(raised)
            /\ Logged(log, "ERROR") = Cardinality(raised)
            /\ r.img.pixels =
                 Filter(OPERATIONS, EndedIn("ok") \ {"advanced_convert_filetype"})
            /\ "advanced_convert_filetype" \in raised => r.img_extension = last.img.ext
            /\ enabled \cap OpSet \subseteq Range(r.invoked)

\* An operation raised and a later operation was applied to the image.
C2_Witness ==
    /\ Called
    /\ \E o \in EndedIn("raise"), p \in EndedIn("ok") :
         /\ Position(OPERATIONS, o) < Position(OPERATIONS, p)
         /\ p \in Range(last.r.img.pixels)

----------------------------------------------------------------------------
(* C3 *)

\* C3: an operation that is not enabled has not been invoked by process(),
\* has left no trace in the working image, has left the extension alone,
\* has appended no log line and has not touched the error counter; with
\* statistics disabled no statistics text is produced, and a metric that is
\* not selected has no line in it.
C3_DisabledNoOp ==
    Called =>
        LET r == last.r IN
        /\ \A o \in (OpSet \cup {"advanced_stats"}) \ enabled :
             /\ o \notin Range(r.invoked)
             /\ o \notin Range(r.img.pixels)
             /\ \A i \in 1..Len(r.lines) : r.lines[i].text # o
        /\ "advanced_convert_filetype" \notin enabled => r.img_extension = last.img.ext
        /\ "advanced_stats" \notin enabled => r.img_stats = << >>
        /\ \A m \in MetricSet \ enabled :
             \A i \in 1..Len(r.img_stats) : r.img_stats[i][1] # m
        /\ Len(r.lines) = 1 + Cardinality(enabled \cap OpSet)
                             + (IF r.raised THEN 0 ELSE 1)
        /\ r.errs = Cardinality(EndedIn("raise"))

\* A call in which an operation ran while a metric was checked with
\* statistics switched off.
C3_Witness ==
    /\ Called
    /\ "advanced_stats" \notin enabled
    /\ enabled \cap MetricSet # {}
    /\ enabled \cap OpSet # {}

----------------------------------------------------------------------------
(* C4 *)

\* C4: with filetype conversion, mode conversion and statistics enabled,
\* filetype conversion is consulted before mode conversion and mode
\* conversion before statistics; every line of the statistics text is
\* computed from the image process() returns, which carries the mode
\* conversion as its last transform when that conversion succeeded; and a
\* successful filetype conversion has set the extension.
C4_AdvancedOrder ==
    (Called /\ Advanced \subseteq enabled) =>
        LET r == last.r
            modes == "advanced_convert_modes"
        IN  /\ Position(r.invoked, "advanced_convert_filetype") >= 1
            /\ Position(r.invoked, "advanced_convert_filetype")
                 < Position(r.invoked, modes)
            /\ Position(r.invoked, modes) < Position(r.invoked, "advanced_stats")
            /\ last.beh["advanced_convert_filetype"] = "ok"
                 => r.img_extension = LowerExt(advanced_convert_filetype_option)
            /\ \A i \in 1..Len(r.img_stats) :
                 /\ r.img_stats[i][2] = r.img
                 /\ last.beh[modes] = "ok" =>
                      LET px == r.img_stats[i][2].pixels IN
                      px # << >> /\ px[Len(px)] = modes

\* Both conversions succeeded and a metric line was produced.
C4_Witness ==
    /\ Called
    /\ Advanced \subseteq enabled
    /\ last.beh["advanced_convert_modes"] = "ok"
    /\ last.beh["advanced_convert_filetype"] = "ok"
    /\ last.r.img_stats # << >>

----------------------------------------------------------------------------
(* C5 *)

\* C5: with statistics enabled, a selected metric whose computation fails
\* is logged as an ERROR and left out of the statistics text, the other
\* selected metrics have their lines, and process() returns a result.
C5_MetricFailSafe ==
    (Called /\ "advanced_stats" \in enabled) =>
        LET r == last.r
            failing == { m \in enabled \cap MetricSet : last.beh[m] = "raise" }
        IN  failing # {} =>
              /\ ~r.raised
              /\ { r.img_stats[i][1] : i \in 1..Len(r.img_stats) }
                   = (enabled \cap MetricSet) \ failing
              /\ CountTag(r.lines, "ERROR")
                   = Cardinality(EndedIn("raise")) + Cardinality(failing)

----------------------------------------------------------------------------
(* C6 *)

\* How many ERROR lines of the listbox carry one of the texts.
ErrorsOf(texts) ==
    LET hit == { x \in BagToSet(log) : x.tag = "ERROR" /\ x.text \in texts } IN
    BagCardinality([x \in hit |-> log[x]])

\* K: the entries of the source directory that do not decode.
Undecodable == Cardinality({ i \in 1..Len(srcdir) : ~srcdir[i].image })

Summarised(w) == pc[w] \in {"ending", "finished"}

\* C6 as stated: a batch over N entries of which K fail to decode ends with
\* processed count N-K and error count K, and its summary line reports
\* these two numbers.
C6_Original ==
    \A w \in Workers : Summarised(w) =>
        /\ IMG_COUNT = Len(srcdir) - Undecodable
        /\ ERR_COUNT = Undecodable
        /\ BagIn(SummaryLine(Len(srcdir) - Undecodable, Undecodable), log)

\* C6 amended: a batch that runs alone over N entries of which K fail to
\* decode ends with processed count N-K-F and error count K+F+O, where F
\* counts the decoded entries whose pipeline, save or sidecar write raised
\* and O the operation failures check() caught; it logs one ERROR per decode
\* failure and its one summary line reports the two counters.
C6_Counts ==
    Summarised(1) =>
        LET F == ErrorsOf({"process", "save", "write"})
            O == ErrorsOf(OpSet)
        IN  /\ ErrorsOf({"open"}) = Undecodable
            /\ IMG_COUNT = Len(srcdir) - Undecodable - F
            /\ ERR_COUNT = Undecodable + F + O
            /\ CopiesIn(SummaryLine(IMG_COUNT, ERR_COUNT), log) = 1
            /\ Logged(log, "INFO") = 2

\* A batch over two entries, one of which does not decode, has ended with
\* one image processed and one error.
C6_Witness ==
    /\ pc[1] = "finished"
    /\ Len(srcdir) = 2
    /\ Undecodable = 1
    /\ IMG_COUNT = 1
    /\ ERR_COUNT = 1

----------------------------------------------------------------------------
(* C7 *)

\* C7: once the loop runs, each step of it handles the next entry of the
\* listing and stays in the loop: the entry is either processed (one more
\* image) or its failure is logged as an ERROR and counted, an entry that
\* does not decode being never processed; and the loop is left only when
\* every entry of the listing has been handled, towards the summary.
C7_LoopGoesOn ==
    [][ \A w \in Workers :
          /\ (pc[w] = "loop" /\ idx'[w] # idx[w]) =>
                /\ idx[w] < Len(srcdir)
                /\ idx'[w] = idx[w] + 1
                /\ pc'[w] = "loop"
                /\ \/ /\ IMG_COUNT' = IMG_COUNT + 1
                      /\ srcdir[idx[w] + 1].image
                   \/ /\ IMG_COUNT' = IMG_COUNT
                      /\ ERR_COUNT' >= ERR_COUNT + 1
                      /\ Logged(log', "ERROR") >= Logged(log, "ERROR") + 1
          /\ (pc[w] = "loop" /\ pc'[w] # "loop") =>
                /\ idx[w] = Len(srcdir)
                /\ pc'[w] = "ending"
      ]_vars

\* The first of two entries failed and the second was processed.
C7_Witness ==
    /\ pc[1] = "loop"
    /\ idx[1] = 2
    /\ ~srcdir[1].image
    /\ IMG_COUNT = 1

----------------------------------------------------------------------------
(* C8 *)

\* C8: while a batch is in its loop, a step that is not its own leaves the
\* processed count and the error count it will report as they are.
C8_OwnCounters ==
    [][ \A w \in Workers :
          (pc[w] = "loop" /\ pc'[w] = "loop" /\ idx'[w] = idx[w]) =>
              (IMG_COUNT' = IMG_COUNT /\ ERR_COUNT' = ERR_COUNT)
      ]_vars

----------------------------------------------------------------------------
(* C9 *)

\* C9: the in-flight job counter is never negative.
C9_NonNegative == THREAD_COUNT >= 0

----------------------------------------------------------------------------
(* C10 *)

\* C10: when the launcher is idle and every launched batch has ended, the
\* in-flight job counter is 0.
C10_TracksInFlight ==
    (launcher = 0 /\ \A w \in Workers : pc[w] = "idle" \/ Ended(w))
        => THREAD_COUNT = 0

----------------------------------------------------------------------------
(* C11 *)

\* C11: every image of a batch is processed under the configuration the
\* batch started with: whenever the batch reads the options process()
\* depends on, it finds them as they were when the batch started.
C11_Snapshot ==
    \A w \in Workers : \A i \in 1..Len(read[w]) :
        read[w][i] \cap Toggles = read[w][1] \cap Toggles

----------------------------------------------------------------------------
(* C12 *)

\* The base name with case folded and surrounding blanks removed, for the
\* file names of EntryPool and DestPool.
C12_Key(name) ==
    CASE name \in { << "a" >>, << "A" >>, << " ", "a", " " >> } -> "a"
      [] name \in { << "n", "o", "t", "e", "s" >>, << "N", "o", "t", "e", "s" >> }
           -> "notes"
      [] OTHER -> "b"

\* A source file and a file of the output directory have the same key.
C12_Intersect ==
    \E f \in Range(srcdir), g \in outdir : C12_Key(f.name) = C12_Key(g.name)

\* The batch has listed both directories and compared the names.
C12_Compared ==
    pc[1] \in {"confirm", "loop", "ending", "finished"} \/ asked[1] # << >>

\* C12: no batch requests the overwrite confirmation more than once; a
\* batch that has listed and compared the two directories has requested it
\* exactly once if the case-folded, trimmed base names of source and
\* destination intersect and the overwrite flag is unset, and not at all
\* otherwise; and while the confirmation is open no source file has been
\* decoded, processed or written.
C12_AskedOnce ==
    /\ \A w \in Workers : Len(asked[w]) <= 1
    /\ C12_Compared =>
          Len(asked[1]) = IF C12_Intersect /\ "general_overwrite" \notin enabled
                          THEN 1 ELSE 0
    /\ asked[1] = << "open" >> =>
          /\ idx[1] = 0
          /\ Len(read[1]) = 1
          /\ saved = {}
          /\ Logged(log, "FILE") = 0

\* A batch over two images whose names collide with the destination only
\* after case folding has asked once and processed both.
C12_Witness ==
    /\ pc[1] = "finished"
    /\ asked[1] = << "ok" >>
    /\ IMG_COUNT = 2
    /\ base_names_verbatim(Range(srcdir)) \cap base_names_verbatim(outdir) = {}

----------------------------------------------------------------------------
(* C13 *)

\* C13: a batch whose overwrite confirmation was declined has aborted: it
\* has appended one INFO 'Aborted' line, has decoded no entry and written
\* no file, its processed count is zero and there is no summary line.
C13_Declined ==
    asked[1] = << "cancel" >> =>
        /\ pc[1] = "aborted"
        /\ CopiesIn(Line("INFO", "Aborted"), log) = 1
        /\ idx[1] = 0
        /\ Len(read[1]) = 1
        /\ saved = {}
        /\ Logged(log, "FILE") = 0
        /\ IMG_COUNT = 0
        /\ \A x \in BagToSet(log) : x.text # "Finished"

\* The confirmation of a batch over two images was declined.
C13_Witness ==
    /\ asked[1] = << "cancel" >>
    /\ Len(srcdir) = 2
    /\ \A i \in 1..2 : srcdir[i].image

----------------------------------------------------------------------------
(* C14 *)

\* C14: a batch in which os.fsencode or os.makedirs failed has aborted with
\* exactly one ERROR line and a processed count of zero, without asking
\* for confirmation: no source entry has been decoded and no file written.
C14_DirFailure ==
    ErrorsOf({"fsencode", "makedirs"}) >= 1 =>
        /\ pc[1] = "aborted"
        /\ Logged(log, "ERROR") = 1
        /\ IMG_COUNT = 0
        /\ idx[1] = 0
        /\ Len(read[1]) = 1
        /\ asked[1] = << >>
        /\ saved = {}
        /\ Logged(log, "FILE") = 0
        /\ \A x \in BagToSet(log) : x.text # "Finished"

\* Creating a directory failed for a batch over two entries, the first an
\* image.
C14_Witness ==
    /\ pc[1] = "aborted"
    /\ ErrorsOf({"makedirs"}) = 1
    /\ Len(srcdir) = 2
    /\ srcdir[1].image

----------------------------------------------------------------------------
(* C15 *)

\* C15: a batch that has ended without a directory failure and without a
\* declined confirmation has attempted every source entry and logged its
\* summary line.
C15_OnlyDirAborts ==
    (/\ Ended(1)
     /\ ErrorsOf({"fsencode", "makedirs"}) = 0
     /\ asked[1] # << "cancel" >>) =>
        /\ idx[1] = Len(srcdir)
        /\ \E x \in BagToSet(log) : x.text = "Finished"

----------------------------------------------------------------------------
(* C16 *)

\* C16: while a batch worker is alive, the main loop ends only out of the
\* confirmation dialog: no step takes the program from its running main
\* loop to the end without the operator having been asked.
C16_ExitConfirmed ==
    [][ (/\ mainloop # "ended"
         /\ mainloop' = "ended"
         /\ \E w \in Workers : Alive(w)) => mainloop = "asking" ]_vars

----------------------------------------------------------------------------
(* Helpers of the resize properties *)

ResizeCalled == resized # None

\* The sizes of the forms N%, NxN, N%xN, NxN% and N%xN%.
TwoFieldOrPercent == Pct \cup Pairs \cup { DefaultResize }

\* The entry is a size of these forms that resolves to no zero on the
\* image of the call, followed by `o` and two absolute numbers.
GatedCase(o) ==
    /\ ResizeCalled
    /\ LET part == split(transform_resize_entry, o) IN
       /\ Len(part) = 2
       /\ part[1] \in TwoFieldOrPercent
       /\ part[2] \in Thresholds
       /\ 0 \notin Range(Target(part[1], resized.img))

\* The two numbers after `o`.
ThresholdOf(o) ==
    LET t == split(split(transform_resize_entry, o)[2], "x") IN
    << int(t[1]), int(t[2]) >>

\* The call returned its image unchanged and logged one line, tagged `tag`.
Unchanged(tag) ==
    /\ resized.r.img = resized.img
    /\ Len(resized.r.lines) = 1
    /\ resized.r.lines[1].tag = tag

\* The call went on to ImageOps with the size the text before `o` resolves to.
ResizedBy(o) ==
    /\ resized.r.how = "ok"
    /\ resized.r.img =
         [source |-> resized.img,
          new_size |-> Target(split(transform_resize_entry, o)[1], resized.img)]

----------------------------------------------------------------------------
(* C17 *)

----------------------------------------------------------------------------
(* C18 *)

----------------------------------------------------------------------------
(* C19 *)

\* What the grammar makes of one field on an axis of length d: an absolute
\* field as it is, a percentage p% as floor(p * d / 100).
C19_Field(f, d) ==
    IF f[Len(f)] = "%" THEN (int(SubSeq(f, 1, Len(f) - 1)) * d) \div 100
    ELSE int(f)

\* The target of a size of one field or two on the image.
C19_Target(size, img) ==
    LET part == split(size, "x")
        second == IF Len(part) = 2 THEN part[2] ELSE part[1]
    IN  << C19_Field(part[1], img.width), C19_Field(second, img.height) >>

\* C19: every size of the forms N, N%, NxN, N%xN, NxN% and N%xN% whose
\* target has no zero is accepted, and the image is resized to the target
\* the grammar gives.
C19_Grammar ==
    (/\ ResizeCalled
     /\ transform_resize_entry \in Sizes \cup { DefaultResize }
     /\ 0 \notin Range(C19_Target(transform_resize_entry, resized.img))) =>
        /\ resized.r.how = "ok"
        /\ resized.r.img.new_size = C19_Target(transform_resize_entry, resized.img)

----------------------------------------------------------------------------
(* C20 *)

\* The entry follows the grammar on the image of the call: a size of one
\* field or two with no zero in its target, alone or followed by '>' or
\* '<' and two absolute numbers.
C20_Valid ==
    \E size \in Sizes \cup { DefaultResize } :
        /\ 0 \notin Range(C19_Target(size, resized.img))
        /\ \/ transform_resize_entry = size
           \/ \E o \in {">", "<"}, t \in Thresholds :
                 transform_resize_entry = size \o << o >> \o t

\* C20: on every entry that does not follow the grammar the call returns
\* its image unchanged and logs exactly one line, a WARN.
C20_InvalidWarns ==
    (ResizeCalled /\ ~C20_Valid) =>
        resized.r.how = "reject" /\ Unchanged("WARN")

----------------------------------------------------------------------------
(* C21 *)

\* The region the crop grammar gives on the image: LEFT and UPPER as
\* offsets from the near edge, RIGHT and LOWER percentages as insets from
\* the far edge, a percentage p% of a length d being floor(p * d / 100).
C21_Region(coordinates, img) ==
    LET f == split(coordinates, ",") IN
    << C19_Field(f[1], img.width),
       C19_Field(f[2], img.height),
       IF f[3][Len(f[3])] = "%"
       THEN img.width - C19_Field(f[3], img.width) ELSE int(f[3]),
       IF f[4][Len(f[4])] = "%"
       THEN img.height - C19_Field(f[4], img.height) ELSE int(f[4]) >>

\* C21: on every crop spec of four fields, with (left, upper, right, lower)
\* the region of the grammar: if left >= right or upper >= lower or
\* right = 0 or lower = 0 the image is returned unchanged with one WARN
\* line, otherwise that region is cropped and the returned image is
\* right - left wide and lower - upper high.
C21_Crop ==
    (cropped # None /\ transform_crop_entry \in CropSpecs \cup { DefaultCrop }) =>
        LET b == C21_Region(transform_crop_entry, cropped.img) IN
        IF b[1] >= b[3] \/ b[2] >= b[4] \/ b[3] = 0 \/ b[4] = 0
        THEN /\ cropped.r.how = "reject"
             /\ cropped.r.img = cropped.img
             /\ Len(cropped.r.lines) = 1
             /\ cropped.r.lines[1].tag = "WARN"
        ELSE /\ cropped.r.how = "ok"
             /\ cropped.r.img.box = b
             /\ cropped.r.img.width = b[3] - b[1]
             /\ cropped.r.img.height = b[4] - b[2]

----------------------------------------------------------------------------
(* C22 *)

\* C22: the call posterizes, keeping that many bits, exactly when the text
\* of the entry is an integer from 1 to 8; on every other text it returns
\* its image unchanged and logs exactly one line, a WARN.
C22_Posterize ==
    posterized # None =>
        IF decimal(transform_posterize_entry)
             /\ int(transform_posterize_entry) \in 1..8
        THEN /\ posterized.r.how = "ok"
             /\ posterized.r.img =
                    [source |-> posterized.img,
                     bits |-> int(transform_posterize_entry)]
        ELSE /\ posterized.r.how = "reject"
             /\ posterized.r.img = posterized.img
             /\ Len(posterized.r.lines) = 1
             /\ posterized.r.lines[1].tag = "WARN"

----------------------------------------------------------------------------
(* C23 *)

\* The operations of `ops` that come before (after) o in the pipeline.
Before(o, ops) ==
    { p \in ops : Position(OPERATIONS, p) < Position(OPERATIONS, o) }

After(o, ops) ==
    { p \in ops : Position(OPERATIONS, p) > Position(OPERATIONS, o) }

\* C23: each enabled parameterized operation that refused its parameter
\* has logged exactly one WARN line and has added nothing to the error
\* counter; the image that comes out carries the operations that succeeded
\* before it followed by those that succeeded after it, and nothing of the
\* refusing operation; and every enabled operation after it was still
\* consulted.
C23_RejectPassesOn ==
    Called =>
        LET r == last.r
            rejected == EndedIn("reject")
            applied == EndedIn("ok") \ {"advanced_convert_filetype"}
        IN  /\ rejected \subseteq ParamOps
            /\ CountTag(r.lines, "WARN") = Cardinality(rejected)
            /\ r.errs = Cardinality(EndedIn("raise"))
            /\ ERR_COUNT = r.errs
            /\ \A o \in rejected :
                 /\ Cardinality({ i \in 1..Len(r.lines) :
                                    r.lines[i] = Line("WARN", o) }) = 1
                 /\ o \notin Range(r.img.pixels)
                 /\ r.img.pixels = Filter(OPERATIONS, Before(o, applied))
                                      \o Filter(OPERATIONS, After(o, applied))
                 /\ After(o, enabled \cap OpSet) \subseteq Range(r.invoked)

\* An operation refused its parameter and a later operation was applied to
\* the image.
C23_Witness ==
    /\ Called
    /\ \E o \in EndedIn("reject"), p \in EndedIn("ok") :
         /\ Position(OPERATIONS, o) < Position(OPERATIONS, p)
         /\ last.r.img.pixels = << p >>

----------------------------------------------------------------------------
(* C24 *)

\* The tags of the lines the latest call logged for operation o.
TagsOf(o) ==
    LET r == last.r IN
    [ i \in 1..Len(Filter(r.lines, { l \in Range(r.lines) : l.text = o })) |->
        Filter(r.lines, { l \in Range(r.lines) : l.text = o })[i].tag ]

\* C24 as stated: every enabled operation has logged exactly one line,
\* which is either a TRANSFORM or ADVANCED line, or a WARN line with the
\* image left without that operation.
C24_Original ==
    Called =>
        \A o \in enabled \cap OpSet :
            \/ TagsOf(o) \in { << "TRANSFORM" >>, << "ADVANCED" >> }
            \/ TagsOf(o) = << "WARN" >> /\ o \notin Range(last.r.img.pixels)

\* C24 amended: every enabled operation has logged exactly one line: a
\* TRANSFORM line (an ADVANCED line for the two conversions) when it
\* succeeded; a WARN line when it refused its parameter; an INFO line
\* when it is the resize and its '>' or '<' suffix made it skip the image;
\* an ERROR line, written by check(), when it raised.  In the last three
\* cases the image is left without that operation.
C24_Outcomes ==
    Called =>
        \A o \in enabled \cap OpSet :
            LET conv == o \in {"advanced_convert_filetype", "advanced_convert_modes"}
            IN
            \/ /\ last.beh[o] = "ok"
               /\ TagsOf(o) = IF conv THEN << "ADVANCED" >> ELSE << "TRANSFORM" >>
            \/ /\ last.beh[o] = "reject"
               /\ TagsOf(o) = << "WARN" >>
               /\ o \notin Range(last.r.img.pixels)
            \/ /\ last.beh[o] = "skip"
               /\ o = "transform_resize"
               /\ TagsOf(o) = << "INFO" >>
               /\ o \notin Range(last.r.img.pixels)
            \/ /\ last.beh[o] = "raise"
               /\ TagsOf(o) = << "ERROR" >>
               /\ o \notin Range(last.r.img.pixels)

\* The resize skipped the image and a later operation succeeded.
C24_Witness ==
    /\ Called
    /\ "transform_resize" \in enabled
    /\ last.beh["transform_resize"] = "skip"
    /\ TagsOf("transform_resize") = << "INFO" >>
    /\ EndedIn("ok") # {}

----------------------------------------------------------------------------
(* C25 *)

\* The step is a save_logs call whose write failed: logs.txt is left
\* truncated although the listbox holds lines.
SaveFailed ==
    /\ log # EmptyBag
    /\ logs_txt # [lines |-> EmptyBag]
    /\ logs_txt' = [lines |-> EmptyBag]

\* C25: every step in which a handler catches a failure appends one line
\* for it: a step of the batch loop appends as many ERROR lines as its
\* handlers (check() and the file-level handler) have counted errors, a
\* directory failure at the start of a batch appends one ERROR line, and a
\* save_logs call whose write failed appends one line too.
C25_NoSilentDrop ==
    [][ /\ \A w \in Workers :
             (pc[w] = "loop" /\ idx'[w] = idx[w] + 1) =>
                 Logged(log', "ERROR") - Logged(log, "ERROR")
                     = ERR_COUNT' - ERR_COUNT
        /\ \A w \in Workers :
             (pc[w] = "start" /\ pc'[w] = "aborted") =>
                 Logged(log', "ERROR") = Logged(log, "ERROR") + 1
        /\ SaveFailed => BagCardinality(log') = BagCardinality(log) + 1 ]_vars

----------------------------------------------------------------------------
(* C26 *)

\* The summary lines in the listbox.
Summaries ==
    LET hit == { x \in BagToSet(log) : x.tag = "INFO" /\ x.text = "Finished" } IN
    BagCardinality([x \in hit |-> log[x]])

\* The batch was aborted: a directory failure or a declined confirmation.
Aborted(w) == pc[w] = "aborted"

\* C26: a batch that has ended without being aborted has emitted exactly
\* one summary line and an aborted batch none; the summary line is emitted
\* by a step taken when every source entry has been handled, which leaves
\* the in-flight counter alone, and the counter is decremented by a later
\* step of the batch, never before.
C26_Summary ==
    /\ [](\A w \in Workers :
            /\ (Ended(w) /\ ~Aborted(w)) => Summaries = 1
            /\ Aborted(w) => Summaries = 0)
    /\ [][ /\ Summaries' # Summaries =>
                /\ Summaries' = Summaries + 1
                /\ idx[1] = Len(srcdir)
                /\ pc[1] = "loop"
                /\ THREAD_COUNT' = THREAD_COUNT
           /\ (pc[1] = "loop" /\ THREAD_COUNT' < THREAD_COUNT) => FALSE
           /\ (pc[1] # "finished" /\ pc'[1] = "finished") =>
                /\ Summaries = 1
                /\ THREAD_COUNT' = Release(THREAD_COUNT) ]_vars

----------------------------------------------------------------------------
(* C27 *)

\* How many copies of the FILE line `text` the step has appended.
Appended(text) ==
    CopiesIn(Line("FILE", text), log') - CopiesIn(Line("FILE", text), log)

\* The sidecar of source entry e.
Sidecar(e) == [name |-> e.name, ext |-> ".txt"]

\* The statistics text of an image is not empty: statistics are enabled
\* and a metric is selected.
StatsSelected == "advanced_stats" \in enabled /\ enabled \cap MetricSet # {}

\* C27: in each step of the batch loop, on source entry e: the sidecar of e
\* is written only if statistics are enabled with a metric selected and
\* the image of e has been saved in this step; when both hold the sidecar
\* write is made, and either it succeeds and the sidecar is in the
\* destination or its failure is logged as an ERROR; otherwise (no
\* statistics, statistics with no metric selected, or no image saved) no
\* sidecar is written.
C27_Sidecar ==
    [][ (pc[1] = "loop" /\ idx'[1] = idx[1] + 1) =>
          LET e == srcdir[idx[1] + 1] IN
          /\ Appended("Saved statistics") \in {0, 1}
          /\ Appended("Saved statistics") = 1 =>
                /\ StatsSelected
                /\ Appended("Saved image") = 1
                /\ Sidecar(e) \in saved'
                /\ [name |-> e.name, ext |-> e.ext] \in saved'
          /\ (StatsSelected /\ Appended("Saved image") = 1) =>
                \/ Appended("Saved statistics") = 1
                \/ /\ CopiesIn(Line("ERROR", "write"), log')
                        = CopiesIn(Line("ERROR", "write"), log) + 1
                   /\ IMG_COUNT' = IMG_COUNT
          /\ ~(StatsSelected /\ Appended("Saved image") = 1) =>
                /\ Appended("Saved statistics") = 0
                /\ Sidecar(e) \in saved' => Sidecar(e) \in saved
      ]_vars

\* A batch over one image with statistics and a metric has ended with the
\* image and its sidecar in the destination.
C27_Witness ==
    /\ pc[1] = "finished"
    /\ Len(srcdir) = 1
    /\ StatsSelected
    /\ saved = { [name |-> srcdir[1].name, ext |-> srcdir[1].ext],
                 Sidecar(srcdir[1]) }
    /\ CopiesIn(Line("FILE", "Saved statistics"), log) = 1

----------------------------------------------------------------------------
(* C28 *)

\* The entry is an accepted size followed by one '>' or '<' and a text
\* AxB of two fields.
C28_Suffixed(o) ==
    /\ ResizeCalled
    /\ Len(split(transform_resize_entry, o)) = 2
    /\ Len(split(transform_resize_entry, IF o = ">" THEN "<" ELSE ">")) = 1
    /\ split(transform_resize_entry, o)[1] \in TwoFieldOrPercent
    /\ 0 \notin Range(Target(split(transform_resize_entry, o)[1], resized.img))
    /\ Len(split(split(transform_resize_entry, o)[2], "x")) = 2

\* C28: with a suffix AxB after '>' or '<', the call refuses the entry with
\* a WARN unless A and B are both integers; when they are, the outcome is
\* decided by A alone, as the side of a square: after '>' the image is
\* skipped exactly when its width or its height is below A, after '<'
\* exactly when its width or its height is above A, and it is resized
\* otherwise, whatever B is.
C28_Square ==
    \A o \in {">", "<"} : C28_Suffixed(o) =>
        LET t == split(split(transform_resize_entry, o)[2], "x")
            A == int(t[1])
            w == resized.img.width
            h == resized.img.height
        IN  IF ~(decimal(t[1]) /\ decimal(t[2]))
            THEN resized.r.how = "reject" /\ Unchanged("WARN")
            ELSE IF (o = ">" /\ (w < A \/ h < A)) \/ (o = "<" /\ (w > A \/ h > A))
            THEN resized.r.how = "skip" /\ Unchanged("INFO")
            ELSE ResizedBy(o)

\* Under the suffix '>200x120' an image 250 wide and 150 high, which the
\* rectangle 200x120 would let through, was skipped.
C28_Witness ==
    /\ C28_Suffixed(">")
    /\ split(transform_resize_entry, ">")[2]
         = << "2", "0", "0", "x", "1", "2", "0" >>
    /\ resized.img = [width |-> 250, height |-> 150]
    /\ resized.r.how = "skip"

----------------------------------------------------------------------------
(* C29 *)

\* The ERROR lines of the file-level handler in a listbox.
FileErrors(l) ==
    LET hit == { x \in BagToSet(l) :
                   x.tag = "ERROR" /\ x.text \in {"open", "process", "save", "write"} }
    IN  BagCardinality([x \in hit |-> l[x]])

\* The ERROR lines check() has written in a listbox.
OpErrors(l) ==
    LET hit == { x \in BagToSet(l) : x.tag = "ERROR" /\ x.text \in OpSet }
    IN  BagCardinality([x \in hit |-> l[x]])

\* C29: each step of the loop of a batch running alone ends in exactly one
\* of two ways.  Either the processed count grows by one, the image has
\* been saved and (with a statistics text) its sidecar written, and the
\* file-level handler has logged nothing; or the processed count stays,
\* the file-level handler has logged one ERROR and counted one error.  The
\* error count grows besides by the errors check() has logged in the step.
\* Hence, while the loop runs and when the batch reports, processed count
\* plus file-level errors is the number of entries handled, and the error
\* count is the file-level errors plus the operation-level ones.
C29_OneOutcome ==
    /\ [][ (pc[1] = "loop" /\ idx'[1] = idx[1] + 1) =>
             /\ ERR_COUNT' - ERR_COUNT
                  = (FileErrors(log') - FileErrors(log))
                      + (OpErrors(log') - OpErrors(log))
             /\ \/ /\ IMG_COUNT' = IMG_COUNT + 1
                   /\ FileErrors(log') = FileErrors(log)
                   /\ Appended("Saved image") = 1
                   /\ StatsSelected => Appended("Saved statistics") = 1
                \/ /\ IMG_COUNT' = IMG_COUNT
                   /\ FileErrors(log') = FileErrors(log) + 1
         ]_vars
    /\ [](pc[1] \in {"loop", "ending", "finished"} =>
             /\ IMG_COUNT + FileErrors(log) = idx[1]
             /\ ERR_COUNT = FileErrors(log) + OpErrors(log)
             /\ Summarised(1) => IMG_COUNT + FileErrors(log) = Len(srcdir))

\* A batch over two entries has reported one image processed and two
\* errors: an operation failed on the image that was processed, and the
\* save of the other image failed.
C29_Witness ==
    /\ pc[1] = "finished"
    /\ Len(srcdir) = 2
    /\ IMG_COUNT = 1
    /\ ERR_COUNT = 2
    /\ ErrorsOf({"save"}) = 1
    /\ OpErrors(log) = 1

----------------------------------------------------------------------------
(* C30 *)

\* The filetype conversion has succeeded in the step.
Converted ==
    CopiesIn(Line("ADVANCED", "advanced_convert_filetype"), log')
        > CopiesIn(Line("ADVANCED", "advanced_convert_filetype"), log)

\* C30: each step of the batch loop that saves the image of source entry e
\* writes it at the base name of e with the final extension (the one of
\* the conversion when it succeeded, the one of e otherwise) and at no
\* other path, whatever the destination already holds at that path, and
\* without asking; a step that saves no image writes nothing.
C30_OutputPath ==
    [][ (pc[1] = "loop" /\ idx'[1] = idx[1] + 1) =>
          LET e == srcdir[idx[1] + 1]
              out == [name |-> e.name,
                      ext |-> IF Converted
                              THEN LowerExt(advanced_convert_filetype_option)
                              ELSE e.ext]
          IN  /\ asked' = asked
              /\ Appended("Saved image") \in {0, 1}
              /\ Appended("Saved image") = 1 => saved' = saved \cup { out }
              /\ Appended("Saved image") = 0 => saved' = saved
              /\ IMG_COUNT' = IMG_COUNT + 1 => Appended("Saved image") = 1
      ]_vars

\* A batch over two images of the same base name, converted to the same
\* filetype, has ended with two images processed, two saves made and one
\* image file in the destination, and has never asked.
C30_Witness ==
    /\ pc[1] = "finished"
    /\ Len(srcdir) = 2
    /\ srcdir[1].name = srcdir[2].name
    /\ srcdir[1].ext # srcdir[2].ext
    /\ IMG_COUNT = 2
    /\ CopiesIn(Line("FILE", "Saved image"), log) = 2
    /\ saved = { [name |-> srcdir[1].name,
                  ext |-> LowerExt(advanced_convert_filetype_option)] }
    /\ asked[1] = << >>

====
